---- MODULE Spec2Model ----
(***************************************************************************)
(* HydroAlert: the ingestion endpoint and its background scoring thread    *)
(* (cloud_api.py), the reading table, the alert table and its              *)
(* acknowledgement (database_system.py), the input validator and its       *)
(* security log (security_system.py), the in-memory monitoring buffers     *)
(* (flood_prediction_model.py) and the dashboard scorer                    *)
(* (flood_dashboard.py).                                                   *)
(*                                                                         *)
(* A database statement can fail: a write either commits or raises and     *)
(* leaves its table as it was, and the caller's except clause runs.        *)
(*                                                                         *)
(* Numbers: sensor values are integers (the code compares floats against   *)
(* the integer literals 15, 80, 90, 0, 200, 1000, 100); probabilities are  *)
(* hundredths (0.3 is 30).  The float sums the code forms, 0.3+0.4 = 0.7,   *)
(* 0.4+0.2 = 0.6000000000000001 and 0.3+0.4+0.2 = 0.8999999999999999, fall  *)
(* on the same side of 0.3, 0.6 and 0.8 as the exact sums.                  *)
(* Time is a logical clock; the code's timestamps are clock readings.      *)
(* The level the code spells with an accented I is written CRITICO.        *)
(***************************************************************************)
EXTENDS Integers, Sequences, FiniteSets, TLC

VARIABLES
    now,            \* the wall clock read by datetime.now()/utcnow()
    requests,       \* POST /api/sensors/<id>/data calls, in arrival order
    cloud_readings, \* CloudDatabase table sensor_readings (no UNIQUE key)
    predictions,    \* table predictions
    alerts,         \* table alerts
    ack_result,     \* what the last acknowledge_alert call returned
    model,          \* FloodMonitoringSystem.model: TRUE when the artifact loaded
    locations,      \* FloodMonitoringSystem.locations
    monitor_out,    \* what the last FloodMonitoringSystem / dashboard call returned
    rule_in,        \* a reading handed to the rule scorer alone
    rule_out,       \* the probability and level computed for rule_in
    sensor_readings,\* HydroAlertDatabase table sensor_readings, UNIQUE(sensor_id, timestamp)
    insert_result,  \* what the last HydroAlertDatabase.insert_reading call returned
    security_log,   \* data/security_logs.json: the events of log_security_event
    validate_out,   \* the last validate_sensor_input call: its input and its result
    flood_predictions, \* HydroAlertDatabase table flood_predictions
    summary_out,    \* what the last summary call returned, and when
    sensors,        \* HydroAlertDatabase table sensors: id -> status
    cloud_sensors   \* CloudDatabase table sensors: id -> status

vars == <<now, requests, cloud_readings, predictions, alerts, ack_result,
          model, locations, monitor_out, rule_in, rule_out,
          sensor_readings, insert_result, security_log, validate_out,
          flood_predictions, summary_out, sensors, cloud_sensors>>

tableVars == <<requests, cloud_readings, predictions, alerts, ack_result>>
pipelineVars == <<now, tableVars>>
monitorVars == <<model, locations, monitor_out>>
ruleVars == <<rule_in, rule_out>>
readingVars == <<sensor_readings, insert_result>>
securityVars == <<security_log, validate_out>>
adminVars == <<flood_predictions, summary_out, sensors, cloud_sensors>>
offPipelineVars == <<monitorVars, ruleVars, readingVars, securityVars, adminVars>>

(***************************************************************************)
(* Bounds of the model.                                                    *)
(***************************************************************************)
MaxRequests == 2
MaxNow == 2
MaxDirectAlerts == 2
MaxBuffered == 8
MaxLogged == 2
MaxReadingId == 3
MaxShared == 3
MaxHours == 3
MaxStoredPredictions == 1

(***************************************************************************)
(* Values.                                                                 *)
(***************************************************************************)
NULL == "NULL"
NoTime == 0

SensorIds == {"SP001", "RJ001"}
Actors == {"admin", "defesa_civil"}
Timestamps == {1}

RequiredFields == {"rainfall", "water_level", "soil_moisture"}

\* The sensor triples submitted: <<rainfall, water_level, soil_moisture>>.
Triples ==
    { <<20, 85, 50>>,      \* 0.3 + 0.4: ALTO
      <<5, 30, 40>>,       \* 0.0: BAIXO
      <<20, 30, 40>>,      \* 0.3: MODERADO
      <<250, 85, 95>> }    \* rainfall above 200; 0.3 + 0.4 + 0.2: CRITICO

\* A JSON body: the fields it carries, those whose value float() cannot
\* convert, and the values.  timestamp NoTime: the body has no timestamp.
Payloads ==
    { [present |-> RequiredFields, nonnumeric |-> {}, rainfall |-> t[1],
       water_level |-> t[2], soil_moisture |-> t[3], timestamp |-> ts]
        : t \in Triples, ts \in Timestamps }
    \cup
    { [present |-> RequiredFields \ {f}, nonnumeric |-> {}, rainfall |-> 20,
       water_level |-> 85, soil_moisture |-> 50, timestamp |-> 1]
        : f \in {"water_level"} }
    \cup
    { [present |-> RequiredFields, nonnumeric |-> {f}, rainfall |-> 20,
       water_level |-> 85, soil_moisture |-> 50, timestamp |-> 1]
        : f \in {"rainfall"} }

(***************************************************************************)
(* The rule scorer of process_prediction.                                  *)
(***************************************************************************)
\* The scorer raising its answer once an alert is on record.
RuleProbability_after_alert(rainfall, water_level, soil_moisture) ==
    LET p0 == IF alerts # <<>> THEN 10 ELSE 0
        p1 == IF rainfall > 15 THEN p0 + 30 ELSE p0
        p2 == IF water_level > 80 THEN p1 + 40 ELSE p1
        p3 == IF soil_moisture > 90 THEN p2 + 20 ELSE p2
    IN  IF p3 < 100 THEN p3 ELSE 100

\* The comparisons made with >= instead of >.
RuleProbability_nonstrict(rainfall, water_level, soil_moisture) ==
    LET p0 == 0
        p1 == IF rainfall >= 15 THEN p0 + 30 ELSE p0
        p2 == IF water_level >= 80 THEN p1 + 40 ELSE p1
        p3 == IF soil_moisture >= 90 THEN p2 + 20 ELSE p2
    IN  IF p3 < 100 THEN p3 ELSE 100

RuleProbability(rainfall, water_level, soil_moisture) ==
    LET p0 == 0
        p1 == IF rainfall > 15 THEN p0 + 30 ELSE p0
        p2 == IF water_level > 80 THEN p1 + 40 ELSE p1
        p3 == IF soil_moisture > 90 THEN p2 + 20 ELSE p2
    IN  IF p3 < 100 THEN p3 ELSE 100

\* The boundaries given to the lower level.
RiskLevel_boundary_low(flood_probability) ==
    IF flood_probability <= 30 THEN "BAIXO"
    ELSE IF flood_probability <= 60 THEN "MODERADO"
    ELSE IF flood_probability <= 80 THEN "ALTO"
    ELSE "CRITICO"

RiskLevel(flood_probability) ==
    IF flood_probability < 30 THEN "BAIXO"
    ELSE IF flood_probability < 60 THEN "MODERADO"
    ELSE IF flood_probability < 80 THEN "ALTO"
    ELSE "CRITICO"

\* An alert for every level above BAIXO.
AlertNeeded_from_moderate(risk_level) == risk_level \in {"MODERADO", "ALTO", "CRITICO"}

\* An alert for the top level only.
AlertNeeded_critical_only(risk_level) == risk_level = "CRITICO"

AlertNeeded(risk_level) == risk_level \in {"ALTO", "CRITICO"}

(***************************************************************************)
(* The required-field loop of receive_sensor_data; validate_sensor_input   *)
(* runs the same loop over the same three fields, then timestamp.          *)
(***************************************************************************)
\* The required-field loop with its test left out.
FirstMissingField_unchecked(data) == NULL

\* for field in required_fields: if field not in data: the first field, in
\* the order of the list, that the body lacks (NULL: none).
FirstMissingField(data) ==
    IF "rainfall" \notin data.present THEN "rainfall"
    ELSE IF "water_level" \notin data.present THEN "water_level"
    ELSE IF "soil_moisture" \notin data.present THEN "soil_moisture"
    ELSE NULL

(***************************************************************************)
(* HydroAlertSecurity.validate_sensor_input: the range check.              *)
(***************************************************************************)
InRange(data) ==
    /\ 0 <= data.rainfall /\ data.rainfall <= 200
    /\ 0 <= data.water_level /\ data.water_level <= 1000
    /\ 0 <= data.soil_moisture /\ data.soil_moisture <= 100

\* True: the input is accepted.  A rejection is also logged as the
\* security event invalid_sensor_data.
validate_sensor_input(data) ==
    /\ RequiredFields \subseteq data.present
    /\ data.timestamp # NoTime
    /\ data.nonnumeric = {}
    /\ InRange(data)

\* The reason validate_sensor_input logs for data (NULL: data is accepted):
\* the first of rainfall, water_level, soil_moisture, timestamp the
\* dictionary lacks; else the float() that raised; else the first range
\* left, in the order rainfall, water_level, soil_moisture.
ValidationReason(data) ==
    IF FirstMissingField(data) # NULL
    THEN [kind |-> "missing_field", field |-> FirstMissingField(data)]
    ELSE IF data.timestamp = NoTime
    THEN [kind |-> "missing_field", field |-> "timestamp"]
    ELSE IF data.nonnumeric # {}
    THEN [kind |-> "could_not_convert", field |-> NULL]
    ELSE IF ~(0 <= data.rainfall /\ data.rainfall <= 200)
    THEN [kind |-> "out_of_range", field |-> "rainfall"]
    ELSE IF ~(0 <= data.water_level /\ data.water_level <= 1000)
    THEN [kind |-> "out_of_range", field |-> "water_level"]
    ELSE IF ~(0 <= data.soil_moisture /\ data.soil_moisture <= 100)
    THEN [kind |-> "out_of_range", field |-> "soil_moisture"]
    ELSE [kind |-> "none", field |-> NULL]

\* Manter apenas os ultimos 1000 logs
LogCap == 1000

\* log_security_event(event_type, details): the event appended to the JSON
\* list, the list cut to its last LogCap events.
log_security_event(log, event_type, details) ==
    LET logs == Append(log, [timestamp |-> now, event_type |-> event_type,
                             details |-> details])
    IN  IF Len(logs) > LogCap
        THEN SubSeq(logs, Len(logs) - LogCap + 1, Len(logs))
        ELSE logs

\* security.validate_sensor_input(data) called on a dictionary: a rejection
\* logs one invalid_sensor_data event with the reason and str(data) and
\* returns False; an accepted dictionary logs nothing and returns True.
ValidateSensorInput(data) ==
    /\ Len(security_log) < MaxLogged
    /\ IF validate_sensor_input(data)
       THEN UNCHANGED security_log
       ELSE security_log' = log_security_event(security_log, "invalid_sensor_data",
                                [reason |-> ValidationReason(data), data |-> data])
    /\ validate_out' = <<data, validate_sensor_input(data)>>
    /\ UNCHANGED <<pipelineVars, monitorVars, ruleVars, readingVars, adminVars>>

(***************************************************************************)
(* Rows.  A table is a sequence; a row's AUTOINCREMENT id is its position  *)
(* (no operation of the code deletes a row of these tables).               *)
(***************************************************************************)
SensorReading(sensor_id, data, at) ==
    [sensor_id |-> sensor_id,
     timestamp |-> IF data.timestamp = NoTime THEN at ELSE data.timestamp,
     rainfall |-> data.rainfall,
     water_level |-> data.water_level,
     soil_moisture |-> data.soil_moisture]

Prediction(sensor_id, at, flood_probability, risk_level) ==
    [sensor_id |-> sensor_id, prediction_time |-> at,
     flood_probability |-> flood_probability, risk_level |-> risk_level]

\* A row of alerts.  The two schemas name the table alike; the columns
\* acknowledged_by and acknowledged_at are those of HydroAlertDatabase.
Alert(sensor_id, alert_type, severity, at) ==
    [sensor_id |-> sensor_id, alert_type |-> alert_type, severity |-> severity,
     timestamp |-> at, acknowledged |-> FALSE,
     acknowledged_by |-> NULL, acknowledged_at |-> NoTime]

OpenAlerts(sensor_id, alert_type) ==
    { a \in DOMAIN alerts :
        /\ alerts[a].sensor_id = sensor_id
        /\ alerts[a].alert_type = alert_type
        /\ ~alerts[a].acknowledged }

(***************************************************************************)
(* POST /api/sensors/<sensor_id>/data.  A request record keeps the call's  *)
(* inputs, the handler's position (pc), the HTTP status returned (0: none  *)
(* yet), the error of the JSON body returned, the SensorReading object     *)
(* built (<<reading>>, or <<>>), the state of the thread it started, and   *)
(* the ids of the rows written for it (0: none).                           *)
(***************************************************************************)
\* The error of a response: none, the 400 naming the missing field, or the
\* 500 carrying str(e) of the exception (a float() that could not convert,
\* a database error), which names no field.
NoError == [kind |-> "none", field |-> NULL]
MissingFieldError(field) == [kind |-> "missing_field", field |-> field]
ExceptionError(kind) == [kind |-> kind, field |-> NULL]

Request(sensor_id, data, pc, status, reading, reading_id) ==
    [sensor_id |-> sensor_id, data |-> data, pc |-> pc, status |-> status,
     error |-> NoError,
     reading |-> reading, thread |-> "none", reading_id |-> reading_id,
     prediction_id |-> 0, alert_id |-> 0]

\* The INSERT without its commit: the row is lost when the connection closes.
insert_sensor_reading_uncommitted(reading) ==
    UNCHANGED cloud_readings

\* CloudDatabase.insert_sensor_reading: a plain INSERT.
insert_sensor_reading(reading) ==
    cloud_readings' = Append(cloud_readings, reading)

\* The write raising only after its commit went through.
insert_sensor_reading_raises_late(reading) ==
    cloud_readings' = Append(cloud_readings, reading)

\* CloudDatabase.insert_sensor_reading raising (sqlite3.Error at connect,
\* execute or commit): no row is committed.
insert_sensor_reading_raises(reading) ==
    UNCHANGED cloud_readings

\* The handler up to and including db.insert_sensor_reading(reading): the
\* required-field check, the float() conversions, the write.  The write
\* either commits or raises (sqlite3.Error) leaving the table as it was;
\* every exception ends the handler in its except clause with a 500.
ReceiveSensorData(sensor_id, data) ==
    /\ Len(requests) < MaxRequests
    /\ IF FirstMissingField(data) # NULL
       THEN /\ requests' = Append(requests,
                   [Request(sensor_id, data, "done", 400, <<>>, 0)
                       EXCEPT !.error = MissingFieldError(FirstMissingField(data))])
            /\ UNCHANGED cloud_readings
       ELSE IF data.nonnumeric # {}
       THEN /\ requests' = Append(requests,
                   [Request(sensor_id, data, "done", 500, <<>>, 0)
                       EXCEPT !.error = ExceptionError("could_not_convert")])
            /\ UNCHANGED cloud_readings
       ELSE \/ /\ insert_sensor_reading(SensorReading(sensor_id, data, now))
               /\ requests' = Append(requests,
                      Request(sensor_id, data, "stored", 0,
                              <<SensorReading(sensor_id, data, now)>>,
                              IF Len(cloud_readings') > Len(cloud_readings)
                              THEN Len(cloud_readings') ELSE 0))
            \/ /\ insert_sensor_reading_raises(SensorReading(sensor_id, data, now))
               /\ requests' = Append(requests,
                      [Request(sensor_id, data, "done", 500,
                               <<SensorReading(sensor_id, data, now)>>, 0)
                          EXCEPT !.error = ExceptionError("database_error")])
    /\ UNCHANGED <<now, predictions, alerts, ack_result, offPipelineVars>>

\* threading.Thread(target=process_prediction, args=(sensor_id, reading)).start()
StartThread(i) ==
    /\ requests[i].pc = "stored"
    /\ requests' = [requests EXCEPT ![i].pc = "spawned", ![i].thread = "running"]
    /\ UNCHANGED <<now, cloud_readings, predictions, alerts, ack_result, offPipelineVars>>

\* return jsonify({"status": "success", ...})
Respond(i) ==
    /\ requests[i].pc = "spawned"
    /\ requests' = [requests EXCEPT ![i].pc = "done", ![i].status = 200]
    /\ UNCHANGED <<now, cloud_readings, predictions, alerts, ack_result, offPipelineVars>>

\* The thread writing an alert only for a sensor that never had one.
ProcessPrediction_first_alert_only(i) ==
    LET sensor_id == requests[i].sensor_id
        reading == requests[i].reading[1]
        flood_probability ==
            RuleProbability(reading.rainfall, reading.water_level, reading.soil_moisture)
        risk_level == RiskLevel(flood_probability)
    IN  /\ requests[i].thread = "running"
        /\ predictions' = Append(predictions,
               Prediction(sensor_id, now, flood_probability, risk_level))
        /\ IF AlertNeeded(risk_level)
              /\ \A a \in DOMAIN alerts : alerts[a].sensor_id # sensor_id
           THEN /\ alerts' = Append(alerts, Alert(sensor_id, "FLOOD_RISK", risk_level, now))
                /\ requests' = [requests EXCEPT ![i].thread = "finished",
                                                ![i].prediction_id = Len(predictions) + 1,
                                                ![i].alert_id = Len(alerts) + 1]
           ELSE /\ UNCHANGED alerts
                /\ requests' = [requests EXCEPT ![i].thread = "finished",
                                                ![i].prediction_id = Len(predictions) + 1]
        /\ UNCHANGED <<now, cloud_readings, ack_result, offPipelineVars>>

\* The thread committing after each INSERT: the prediction first, the
\* alert in a second transaction.
ProcessPrediction_commit_each(i) ==
    LET sensor_id == requests[i].sensor_id
        reading == requests[i].reading[1]
        flood_probability ==
            RuleProbability(reading.rainfall, reading.water_level, reading.soil_moisture)
        risk_level == RiskLevel(flood_probability)
    IN  /\ requests[i].thread = "running"
        /\ IF requests[i].prediction_id = 0
           THEN /\ predictions' = Append(predictions,
                       Prediction(sensor_id, now, flood_probability, risk_level))
                /\ requests' = [requests EXCEPT
                       ![i].thread = IF AlertNeeded(risk_level) THEN "running"
                                     ELSE "finished",
                       ![i].prediction_id = Len(predictions) + 1]
                /\ UNCHANGED alerts
           ELSE /\ alerts' = Append(alerts, Alert(sensor_id, "FLOOD_RISK", risk_level, now))
                /\ requests' = [requests EXCEPT ![i].thread = "finished",
                                                ![i].alert_id = Len(alerts) + 1]
                /\ UNCHANGED predictions
        /\ UNCHANGED <<now, cloud_readings, ack_result, offPipelineVars>>

\* process_prediction(sensor_id, reading), run by the thread of request i.
\* Both INSERTs are made on one connection and become visible at its commit.
ProcessPrediction(i) ==
    LET sensor_id == requests[i].sensor_id
        reading == requests[i].reading[1]
        flood_probability ==
            RuleProbability(reading.rainfall, reading.water_level, reading.soil_moisture)
        risk_level == RiskLevel(flood_probability)
    IN  /\ requests[i].thread = "running"
        /\ predictions' = Append(predictions,
               Prediction(sensor_id, now, flood_probability, risk_level))
        /\ IF AlertNeeded(risk_level)
           THEN /\ alerts' = Append(alerts, Alert(sensor_id, "FLOOD_RISK", risk_level, now))
                /\ requests' = [requests EXCEPT ![i].thread = "finished",
                                                ![i].prediction_id = Len(predictions) + 1,
                                                ![i].alert_id = Len(alerts) + 1]
           ELSE /\ UNCHANGED alerts
                /\ requests' = [requests EXCEPT ![i].thread = "finished",
                                                ![i].prediction_id = Len(predictions) + 1]
        /\ UNCHANGED <<now, cloud_readings, ack_result, offPipelineVars>>

\* process_prediction ending in its except clause: a database statement or
\* the commit raised, the connection is dropped without a commit, the error
\* is printed.  Nothing the thread wrote remains.
ProcessPredictionRaises(i) ==
    /\ requests[i].thread = "running"
    /\ requests' = [requests EXCEPT ![i].thread = "failed"]
    /\ UNCHANGED <<now, cloud_readings, predictions, alerts, ack_result, offPipelineVars>>

(***************************************************************************)
(* HydroAlertDatabase: the table sensor_readings.  Its rows carry their    *)
(* id, since a replaced row is deleted and written anew under the next id. *)
(***************************************************************************)
\* The readings handed to insert_reading: a key, and two sets of values.
HydroReadings ==
    { [sensor_id |-> "SP001", timestamp |-> 1, rainfall |-> t[1],
       water_level |-> t[2], soil_moisture |-> t[3]]
        : t \in {<<20, 85, 50>>, <<5, 30, 40>>} }
    \cup
    { [sensor_id |-> "RJ001", timestamp |-> 1, rainfall |-> 20,
       water_level |-> 85, soil_moisture |-> 50] }

\* The id AUTOINCREMENT gives the next row: one above the largest used.
RECURSIVE MaxId(_)
MaxId(rows) ==
    IF rows = <<>> THEN 0
    ELSE LET m == MaxId(Tail(rows))
         IN  IF Head(rows).id > m THEN Head(rows).id ELSE m

\* INSERT OR REPLACE INTO sensor_readings: the row that holds the key
\* (sensor_id, timestamp) is deleted, the new row is appended.
InsertOrReplace(rows, reading) ==
    Append(SelectSeq(rows, LAMBDA r : ~(r.sensor_id = reading.sensor_id
                                        /\ r.timestamp = reading.timestamp)),
           [id |-> MaxId(rows) + 1, sensor_id |-> reading.sensor_id,
            timestamp |-> reading.timestamp, rainfall |-> reading.rainfall,
            water_level |-> reading.water_level,
            soil_moisture |-> reading.soil_moisture])

\* insert_reading(reading): True after the commit; False, the table as it
\* was, when the statement or the commit raises.
InsertReading(reading) ==
    /\ \/ /\ MaxId(sensor_readings) < MaxReadingId
          /\ sensor_readings' = InsertOrReplace(sensor_readings, reading)
          /\ insert_result' = <<reading, TRUE>>
       \/ /\ UNCHANGED sensor_readings
          /\ insert_result' = <<reading, FALSE>>
    /\ UNCHANGED <<pipelineVars, monitorVars, ruleVars, securityVars, adminVars>>

(***************************************************************************)
(* HydroAlertDatabase: the alert table.                                    *)
(***************************************************************************)
\* insert_alert(Alert(...)) with the dataclass defaults for the
\* acknowledgement fields.
InsertAlert(sensor_id, severity) ==
    /\ Len(alerts) < MaxDirectAlerts
    /\ alerts' = Append(alerts, Alert(sensor_id, "FLOOD_RISK", severity, now))
    /\ UNCHANGED <<now, requests, cloud_readings, predictions, ack_result, offPipelineVars>>

\* The UPDATE flipping the flag instead of setting it.
AcknowledgeAlert_toggle(alert_id, acknowledged_by) ==
    /\ alerts' = [a \in DOMAIN alerts |->
                    IF a = alert_id
                    THEN [alerts[a] EXCEPT !.acknowledged = ~@,
                                           !.acknowledged_by = acknowledged_by,
                                           !.acknowledged_at = now]
                    ELSE alerts[a]]
    /\ ack_result' = "True"
    /\ UNCHANGED <<now, requests, cloud_readings, predictions, offPipelineVars>>

\* UPDATE alerts SET acknowledged = TRUE, acknowledged_by = ?,
\* acknowledged_at = ? WHERE id = ?; the call returns True unless the
\* statement raises.
AcknowledgeAlert(alert_id, acknowledged_by) ==
    /\ alerts' = [a \in DOMAIN alerts |->
                    IF a = alert_id
                    THEN [alerts[a] EXCEPT !.acknowledged = TRUE,
                                           !.acknowledged_by = acknowledged_by,
                                           !.acknowledged_at = now]
                    ELSE alerts[a]]
    /\ ack_result' = "True"
    /\ UNCHANGED <<now, requests, cloud_readings, predictions, offPipelineVars>>

\* acknowledge_alert ending in its except clause: the UPDATE or the commit
\* raised, the table is as it was, the call returns False.
AcknowledgeAlertRaises(alert_id, acknowledged_by) ==
    /\ ack_result' = "False"
    /\ UNCHANGED <<now, requests, cloud_readings, predictions, alerts, offPipelineVars>>

\* Time passes.
Tick ==
    /\ now < MaxNow
    /\ now' = now + 1
    /\ UNCHANGED <<tableVars, offPipelineVars>>

(***************************************************************************)
(* FloodMonitoringSystem (flood_prediction_model.py) and the dashboard     *)
(* scorer predict_risk_level (flood_dashboard.py).                         *)
(***************************************************************************)
LocationIds == {"SP001", "RJ001"}
Thresholds == {70}

\* The dictionaries handed to process_sensor_data.
MonitorData ==
    { [rainfall |-> 20, water_level |-> 85, soil_moisture |-> 50],
      [rainfall |-> 5, water_level |-> 30, soil_moisture |-> 40] }

\* What the loaded artifact's predict() can answer for an input of the
\* shape it was built for (7 steps of 3 features).
ModelOutputs == {10, 70, 90}

\* return 0.5
FallbackRisk == 50

\* The 7 readings a prediction needs.
SeqLength == 7

\* The slice taken from the front of the buffer: data[:7].
Last7_oldest(data) ==
    IF Len(data) <= SeqLength THEN data
    ELSE SubSeq(data, 1, SeqLength)

\* data[-7:]
Last7(data) ==
    IF Len(data) <= SeqLength THEN data
    ELSE SubSeq(data, Len(data) - SeqLength + 1, Len(data))

\* prepare_time_series (data_integration.py), which builds the sequences
\* the saved model is fitted on: features = ['rainfall', 'soil_moisture',
\* 'water_level'], and df[features] gives a row its columns in that order.
TrainingFeatures == <<"rainfall", "soil_moisture", "water_level">>

TrainingRow(day) == [k \in DOMAIN TrainingFeatures |-> day[TrainingFeatures[k]]]

\* np.array([rainfall, water_level, moisture]).T: one row per time step.
ModelInput(recent_data) ==
    [t \in DOMAIN recent_data |->
        <<recent_data[t].rainfall, recent_data[t].water_level,
          recent_data[t].soil_moisture>>]

\* model.predict(X): a probability, or an exception.  An input that has not
\* the 7 steps the artifact was built for makes predict raise.
ModelPredict(X) ==
    IF Len(X) = SeqLength
    THEN { [raised |-> FALSE, risk |-> r] : r \in ModelOutputs }
             \cup { [raised |-> TRUE, risk |-> 0] }
    ELSE { [raised |-> TRUE, risk |-> 0] }

\* A scorer's result: the risk returned (raised: the call ended in an
\* exception instead), whether the artifact was loaded, the number of
\* readings the scorer had, and the input it gave predict() (<<>>: predict
\* was not called).
ScorerResult(op, available, held, raised, risk, X) ==
    [op |-> op, available |-> available, held |-> held,
     raised |-> raised, risk |-> risk, X |-> X]

\* calculate_risk answering 0 where it has no model or too few readings.
calculate_risk_zero_default(locs, location_id) ==
    IF ~model \/ location_id \notin DOMAIN locs
    THEN { ScorerResult("calculate_risk", model,
               IF location_id \in DOMAIN locs
               THEN Len(locs[location_id].sensor_data) ELSE 0,
               FALSE, 0, <<>>) }
    ELSE LET data == locs[location_id].sensor_data
             X == ModelInput(Last7(data))
         IN  IF Len(data) < SeqLength
             THEN { ScorerResult("calculate_risk", model, Len(data), FALSE, 0, <<>>) }
             ELSE { ScorerResult("calculate_risk", model, Len(data), FALSE,
                        IF r.raised THEN FallbackRisk ELSE r.risk, X)
                      : r \in ModelPredict(X) }

\* FloodMonitoringSystem.calculate_risk on the buffers locs: the results
\* it can return.
calculate_risk(locs, location_id) ==
    IF ~model \/ location_id \notin DOMAIN locs
    THEN { ScorerResult("calculate_risk", model,
               IF location_id \in DOMAIN locs
               THEN Len(locs[location_id].sensor_data) ELSE 0,
               FALSE, FallbackRisk, <<>>) }
    ELSE LET data == locs[location_id].sensor_data
             X == ModelInput(Last7(data))
         IN  IF Len(data) < SeqLength
             THEN { ScorerResult("calculate_risk", model, Len(data), FALSE,
                                 FallbackRisk, <<>>) }
             ELSE { ScorerResult("calculate_risk", model, Len(data), FALSE,
                        IF r.raised THEN FallbackRisk ELSE r.risk, X)
                      : r \in ModelPredict(X) }

\* register_location(location_id, name, lat, lon, threshold)
RegisterLocation(location_id, threshold) ==
    /\ locations' = [l \in DOMAIN locations \cup {location_id} |->
                       IF l = location_id
                       THEN [risk_threshold |-> threshold, sensor_data |-> <<>>]
                       ELSE locations[l]]
    /\ UNCHANGED <<model, monitor_out, pipelineVars, ruleVars, readingVars, securityVars, adminVars>>

RECURSIVE Buffered(_, _)
Buffered(locs, S) ==
    IF S = {} THEN 0
    ELSE LET l == CHOOSE x \in S : TRUE
         IN  Len(locs[l].sensor_data) + Buffered(locs, S \ {l})

\* The alert raised as soon as the risk reaches the threshold.
ExceedsThreshold_reached(risk_level, risk_threshold) == risk_level >= risk_threshold

\* if risk_level > self.locations[location_id]['risk_threshold']
ExceedsThreshold(risk_level, risk_threshold) == risk_level > risk_threshold

\* The dictionaries the buffers hold.  A buffer holds the caller's
\* dictionary itself (list.append stores the reference), so an entry carries
\* the identity of its dictionary in obj.
HeldDicts(locs) ==
    UNION { { locs[l].sensor_data[k] : k \in DOMAIN locs[l].sensor_data }
              : l \in DOMAIN locs }

\* The identity of a dictionary the caller has just built: one that no
\* held dictionary has.
RECURSIVE NewObj(_, _, _)
NewObj(locs, location_id, n) ==
    IF \E d \in HeldDicts(locs) : d.obj = <<location_id, n>>
    THEN NewObj(locs, location_id, n + 1)
    ELSE <<location_id, n>>

\* The identity of the dictionary data: a record without obj is a
\* dictionary the caller has just built.
ObjOf(locs, location_id, data) ==
    IF "obj" \in DOMAIN data THEN data.obj ELSE NewObj(locs, location_id, 1)

\* data['timestamp'] = ...: the assignment is made in the caller's
\* dictionary, and shows in every buffer entry that is this dictionary.
SetTimestamp(buffer, obj, at) ==
    [k \in DOMAIN buffer |->
        IF buffer[k].obj = obj THEN [buffer[k] EXCEPT !.timestamp = at]
        ELSE buffer[k]]

\* process_sensor_data(location_id, data): the timestamp is overwritten with
\* the clock, the reading appended (and the buffer copied to the location's
\* CSV file), the risk computed on the new buffer and compared with the
\* location's threshold.  monitor_out keeps the result and whether
\* _trigger_alert ran.
ProcessSensorData(location_id, data) ==
    /\ Buffered(locations, DOMAIN locations) < MaxBuffered
    /\ IF location_id \notin DOMAIN locations
       THEN UNCHANGED <<locations, monitor_out>>
       ELSE /\ locations' =
                 [l \in DOMAIN locations |->
                    [locations[l] EXCEPT !.sensor_data =
                       LET obj == ObjOf(locations, location_id, data)
                           stamped == SetTimestamp(@, obj, now)
                       IN  IF l = location_id
                           THEN Append(stamped,
                                    [obj |-> obj, timestamp |-> now,
                                     rainfall |-> data.rainfall,
                                     water_level |-> data.water_level,
                                     soil_moisture |-> data.soil_moisture])
                           ELSE stamped]]
            /\ \E result \in calculate_risk(locations', location_id) :
                   monitor_out' = <<[result EXCEPT !.op = "process_sensor_data"],
                                    ExceedsThreshold(result.risk,
                                        locations[location_id].risk_threshold)>>
    /\ UNCHANGED <<model, pipelineVars, ruleVars, readingVars, securityVars, adminVars>>

\* calculate_risk(location_id) called on its own.
CalculateRisk(location_id) ==
    /\ \E result \in calculate_risk(locations, location_id) :
           monitor_out' = <<result, FALSE>>
    /\ UNCHANGED <<model, locations, pipelineVars, ruleVars, readingVars, securityVars, adminVars>>

\* The 7-day histories generate_sensor_data builds for a dashboard location
\* (for i in range(7)), as rows <<rainfall, water_level, moisture>>.
DashboardHistories ==
    { [t \in 1..SeqLength |-> <<50, 120, 98>>],
      [t \in 1..SeqLength |-> <<6 + t, 40 + t, 50 + t>>] }

\* predict_risk_level(model, location_data) of the dashboard; available: the
\* dashboard's load_model() returned a model.
predict_risk_level(available, history) ==
    IF ~available
    THEN { ScorerResult("predict_risk_level", available, Len(history), FALSE,
                        FallbackRisk, <<>>) }
    ELSE { ScorerResult("predict_risk_level", available, Len(history),
                        r.raised, r.risk, history) : r \in ModelPredict(history) }

PredictRiskLevel(available, history) ==
    /\ \E result \in predict_risk_level(available, history) :
           monitor_out' = <<result, FALSE>>
    /\ UNCHANGED <<model, locations, pipelineVars, ruleVars, readingVars, securityVars, adminVars>>

MonitorTick ==
    /\ now < MaxNow
    /\ now' = now + 1
    /\ UNCHANGED <<model, locations, monitor_out, tableVars, ruleVars, readingVars, securityVars, adminVars>>

\* FloodMonitoringSystem(): load_model succeeded or self.model is None.
MonitorInit ==
    /\ model \in BOOLEAN
    /\ locations = <<>>
    /\ monitor_out = <<>>

PipelineInit ==
    /\ now = 1
    /\ requests = <<>>
    /\ cloud_readings = <<>>
    /\ predictions = <<>>
    /\ alerts = <<>>
    /\ ack_result = "none"

MonitorIdle ==
    /\ model = FALSE
    /\ locations = <<>>
    /\ monitor_out = <<>>

RuleIdle ==
    /\ rule_in = <<>>
    /\ rule_out = <<>>

\* HydroAlertDatabase on a new file; no insert_reading call made yet.
ReadingsInit ==
    /\ sensor_readings = <<>>
    /\ insert_result = <<>>

\* HydroAlertSecurity(): no event written yet, no validation made yet.
SecurityInit ==
    /\ security_log = <<>>
    /\ validate_out = <<>>

\* The sensors both constructors insert: insert_sample_data and
\* insert_sample_sensors list the same five ids.
SampleSensors == {"SP001", "RJ001", "BL001", "PE001", "RS001"}

\* HydroAlertDatabase() and CloudDatabase() on new files: the sample sensors
\* registered, each active (the value insert_sample_data gives, and the
\* column default of the cloud table); no prediction stored by
\* insert_prediction, no summary asked for.
AdminInit ==
    /\ flood_predictions = <<>>
    /\ summary_out = <<>>
    /\ sensors = [id \in SampleSensors |-> "active"]
    /\ cloud_sensors = [id \in SampleSensors |-> "active"]

Init ==
    /\ PipelineInit
    /\ MonitorIdle
    /\ RuleIdle
    /\ ReadingsInit
    /\ SecurityInit
    /\ AdminInit

\* The ingestion pipeline and the operator.  The clock stands still here;
\* it runs in SpecAlerts.
Next ==
    \/ \E sensor_id \in SensorIds, data \in Payloads : ReceiveSensorData(sensor_id, data)
    \/ \E i \in DOMAIN requests : StartThread(i)
    \/ \E i \in DOMAIN requests : Respond(i)
    \/ \E i \in DOMAIN requests : ProcessPrediction(i)
    \/ \E i \in DOMAIN requests : ProcessPredictionRaises(i)
    \/ \E alert_id \in 1..(Len(alerts) + 1), by \in Actors : AcknowledgeAlert(alert_id, by)

Spec == Init /\ [][Next]_vars

\* The bodies and dictionaries of the gateway: complete ones with and
\* without a timestamp, one out of range, and the malformed ones (two
\* fields missing; a field missing and another not a number; a value that
\* is not a number).
Body(present, nonnumeric, t, ts) ==
    [present |-> present, nonnumeric |-> nonnumeric, rainfall |-> t[1],
     water_level |-> t[2], soil_moisture |-> t[3], timestamp |-> ts]

GatewayPayloads ==
    { Body(RequiredFields, {}, <<20, 85, 50>>, 1),
      Body(RequiredFields, {}, <<20, 85, 50>>, NoTime),
      Body(RequiredFields, {}, <<5, 30, 40>>, NoTime),
      Body(RequiredFields, {}, <<250, 85, 95>>, 1),
      Body({"rainfall"}, {}, <<20, 85, 50>>, 1),
      Body({"water_level", "soil_moisture"}, {"water_level"}, <<20, 85, 50>>, 1),
      Body(RequiredFields, {"soil_moisture"}, <<20, 85, 50>>, NoTime) }

\* The ingestion endpoint receiving for SP001 with time passing, and the
\* validator of security_system.py called on the same dictionaries.
NextGateway ==
    \/ \E data \in GatewayPayloads : ReceiveSensorData("SP001", data)
    \/ \E i \in DOMAIN requests : StartThread(i)
    \/ \E i \in DOMAIN requests : Respond(i)
    \/ \E i \in DOMAIN requests : ProcessPrediction(i)
    \/ \E i \in DOMAIN requests : ProcessPredictionRaises(i)
    \/ \E data \in GatewayPayloads : ValidateSensorInput(data)
    \/ Tick

SpecGateway == Init /\ [][NextGateway]_vars

\* The bodies of the alert lifecycle: one scored ALTO, one scored BAIXO.
LifecyclePayloads ==
    { Body(RequiredFields, {}, <<20, 85, 50>>, 1),
      Body(RequiredFields, {}, <<5, 30, 40>>, 1) }

\* Every step that touches the alert table: the ingestion of SP001 and its
\* scoring thread, insert_alert called for RJ001, acknowledge_alert.
NextLifecycle ==
    \/ \E data \in LifecyclePayloads : ReceiveSensorData("SP001", data)
    \/ \E i \in DOMAIN requests : StartThread(i)
    \/ \E i \in DOMAIN requests : Respond(i)
    \/ \E i \in DOMAIN requests : ProcessPrediction(i)
    \/ \E i \in DOMAIN requests : ProcessPredictionRaises(i)
    \/ InsertAlert("RJ001", "CRITICO")
    \/ \E alert_id \in 1..(Len(alerts) + 1), by \in Actors : AcknowledgeAlert(alert_id, by)

SpecLifecycle == Init /\ [][NextLifecycle]_vars

\* The two durable writes of readings, each able to fail: the ingestion of
\* SP001 with its scoring thread, and HydroAlertDatabase.insert_reading.
NextStore ==
    \/ \E data \in LifecyclePayloads : ReceiveSensorData("SP001", data)
    \/ \E i \in DOMAIN requests : StartThread(i)
    \/ \E i \in DOMAIN requests : Respond(i)
    \/ \E i \in DOMAIN requests : ProcessPrediction(i)
    \/ \E i \in DOMAIN requests : ProcessPredictionRaises(i)
    \/ \E reading \in HydroReadings : InsertReading(reading)

SpecStore == Init /\ [][NextStore]_vars

\* The bodies scored in SpecScoring: one triple with and without a
\* timestamp, and a second triple.
ScoringPayloads ==
    { Body(RequiredFields, {}, <<20, 85, 50>>, 1),
      Body(RequiredFields, {}, <<20, 85, 50>>, NoTime),
      Body(RequiredFields, {}, <<5, 30, 40>>, NoTime) }

\* The ingestion and its scoring threads for both sensors, with time
\* passing between the steps.
NextScoring ==
    \/ \E sensor_id \in SensorIds, data \in ScoringPayloads :
           ReceiveSensorData(sensor_id, data)
    \/ \E i \in DOMAIN requests : StartThread(i)
    \/ \E i \in DOMAIN requests : Respond(i)
    \/ \E i \in DOMAIN requests : ProcessPrediction(i)
    \/ \E i \in DOMAIN requests : ProcessPredictionRaises(i)
    \/ Tick

SpecScoring == Init /\ [][NextScoring]_vars

\* The bodies around the three thresholds of the rule: each value at its
\* threshold or just above it, and rainfall and soil moisture at the top of
\* their ranges with the water level at its threshold or low.
ThresholdPayloads ==
    { Body(RequiredFields, {}, <<r, w, m>>, 1) :
        r \in {15, 16}, w \in {80, 81}, m \in {90, 91} }
    \cup { Body(RequiredFields, {}, <<200, 80, 100>>, 1),
           Body(RequiredFields, {}, <<200, 0, 100>>, 1) }

\* The ingestion of SP001 and its scoring threads on the threshold bodies.
NextThreshold ==
    \/ \E data \in ThresholdPayloads : ReceiveSensorData("SP001", data)
    \/ \E i \in DOMAIN requests : StartThread(i)
    \/ \E i \in DOMAIN requests : Respond(i)
    \/ \E i \in DOMAIN requests : ProcessPrediction(i)
    \/ \E i \in DOMAIN requests : ProcessPredictionRaises(i)

SpecThreshold == Init /\ [][NextThreshold]_vars

\* An id no constructor inserts and no location is registered under.
UnknownSensor == "XX999"

\* Readings submitted under a registered id and under an unknown one: to
\* the ingestion endpoint (which has its scoring threads), and to
\* process_sensor_data, with SP001 registered as a location or not yet.
NextUnregistered ==
    \/ \E sensor_id \in {"SP001", UnknownSensor} :
           ReceiveSensorData(sensor_id, Body(RequiredFields, {}, <<20, 85, 50>>, 1))
    \/ \E i \in DOMAIN requests : StartThread(i)
    \/ \E i \in DOMAIN requests : Respond(i)
    \/ \E i \in DOMAIN requests : ProcessPrediction(i)
    \/ \E i \in DOMAIN requests : ProcessPredictionRaises(i)
    \/ RegisterLocation("SP001", 70)
    \/ \E location_id \in {"SP001", UnknownSensor} :
           ProcessSensorData(location_id,
               [rainfall |-> 20, water_level |-> 85, soil_moisture |-> 50])

SpecUnregistered == Init /\ [][NextUnregistered]_vars

\* The alert table of HydroAlertDatabase alone, with time passing.
NextAlerts ==
    \/ \E sensor_id \in SensorIds, severity \in {"ALTO", "CRITICO"} :
           InsertAlert(sensor_id, severity)
    \/ \E alert_id \in 1..(Len(alerts) + 1), by \in Actors : AcknowledgeAlert(alert_id, by)
    \/ \E alert_id \in 1..(Len(alerts) + 1), by \in Actors :
           AcknowledgeAlertRaises(alert_id, by)
    \/ Tick

SpecAlerts == Init /\ [][NextAlerts]_vars

PipelineIdle ==
    /\ requests = <<>>
    /\ cloud_readings = <<>>
    /\ predictions = <<>>
    /\ alerts = <<>>
    /\ ack_result = "none"

InitMonitor ==
    /\ now = 1
    /\ PipelineIdle
    /\ MonitorInit
    /\ RuleIdle
    /\ ReadingsInit
    /\ SecurityInit
    /\ AdminInit

\* The monitoring system and the dashboard scorer, the clock standing
\* still; it runs in SpecMonitorClock.
NextMonitor ==
    \/ \E location_id \in LocationIds, threshold \in Thresholds :
           RegisterLocation(location_id, threshold)
    \/ \E location_id \in LocationIds, data \in MonitorData :
           ProcessSensorData(location_id, data)
    \/ \E location_id \in LocationIds : CalculateRisk(location_id)
    \/ \E available \in BOOLEAN, history \in DashboardHistories :
           PredictRiskLevel(available, history)

SpecMonitor == InitMonitor /\ [][NextMonitor]_vars

\* The monitoring buffers with time passing between the calls.
NextMonitorClock ==
    \/ \E location_id \in LocationIds, threshold \in Thresholds :
           RegisterLocation(location_id, threshold)
    \/ \E location_id \in LocationIds, data \in MonitorData :
           ProcessSensorData(location_id, data)
    \/ MonitorTick

SpecMonitorClock == InitMonitor /\ [][NextMonitorClock]_vars

\* The thresholds a location is registered with in SpecAlerting: below the
\* fallback risk, equal to it, and the default 0.7.
AlertThresholds == {40, 50, 70}

\* The dictionaries processed in SpecAlerting: values beyond every range,
\* and low ones.
AlertingData ==
    { [rainfall |-> 250, water_level |-> 1001, soil_moisture |-> 101],
      [rainfall |-> 5, water_level |-> 30, soil_moisture |-> 40] }

\* One location registered with different thresholds and fed readings.
NextAlerting ==
    \/ \E threshold \in AlertThresholds : RegisterLocation("SP001", threshold)
    \/ \E data \in AlertingData : ProcessSensorData("SP001", data)

SpecAlerting == InitMonitor /\ [][NextAlerting]_vars

\* The monitoring buffers fed by a caller that hands process_sensor_data
\* either a dictionary it has just built or one it has handed over before
\* (one reading reported for several locations), with time passing.
NextSharedDict ==
    \/ \E location_id \in LocationIds, threshold \in Thresholds :
           RegisterLocation(location_id, threshold)
    \/ \E location_id \in LocationIds :
           ProcessSensorData(location_id,
               [rainfall |-> 20, water_level |-> 85, soil_moisture |-> 50])
    \/ \E location_id \in LocationIds, data \in HeldDicts(locations) :
           /\ Buffered(locations, DOMAIN locations) < MaxShared
           /\ ProcessSensorData(location_id, data)
    \/ MonitorTick

SpecSharedDict == InitMonitor /\ [][NextSharedDict]_vars

(***************************************************************************)
(* The summaries: HydroAlertDatabase.get_system_summary and the endpoint   *)
(* GET /api/dashboard/summary.  Here the clock counts hours; a timestamp   *)
(* is compared as the text the code stores or builds for it.               *)
(***************************************************************************)
HoursPerDay == 24

\* The hour the summary runs start at: two hours before midnight.
StartHour == 22

\* datetime.isoformat(): 'YYYY-MM-DDTHH:MM:SS...', date and time joined by T.
IsoFormat(t) == [date |-> t \div HoursPerDay, sep |-> "T", hour |-> t % HoursPerDay]

\* SQLite's datetime(): 'YYYY-MM-DD HH:MM:SS', date and time joined by a space.
SqliteDatetime(t) == [date |-> t \div HoursPerDay, sep |-> " ", hour |-> t % HoursPerDay]

\* The code points of the two separators.
SepCode(sep) == IF sep = "T" THEN 84 ELSE 32

\* a >= b as SQLite compares two TEXT values: character by character, so
\* by date, then by separator, then by time of day.
TextGE(a, b) ==
    \/ a.date > b.date
    \/ /\ a.date = b.date
       /\ \/ SepCode(a.sep) > SepCode(b.sep)
          \/ SepCode(a.sep) = SepCode(b.sep) /\ a.hour >= b.hour

Summary(op, total_sensors, active_alerts, readings_24h, high_risk_predictions) ==
    [op |-> op, at |-> now, total_sensors |-> total_sensors,
     active_alerts |-> active_alerts, readings_24h |-> readings_24h,
     high_risk_predictions |-> high_risk_predictions]

\* FloodPrediction(sensor_id, prediction_timestamp = now().isoformat(), ...)
FloodPrediction(sensor_id, flood_probability, risk_level) ==
    [sensor_id |-> sensor_id, prediction_timestamp |-> now,
     flood_probability |-> flood_probability, risk_level |-> risk_level]

\* HydroAlertDatabase.insert_prediction: a plain INSERT.  (When the
\* statement raises the table is left as it was and False is returned.)
InsertPrediction(prediction) ==
    /\ Len(flood_predictions) < MaxStoredPredictions
    /\ flood_predictions' = Append(flood_predictions, prediction)
    /\ UNCHANGED <<pipelineVars, monitorVars, ruleVars, readingVars, securityVars,
                   summary_out, sensors, cloud_sensors>>

\* get_system_summary(): one cutoff, now - 24 hours in isoformat, serves
\* both the count of readings and the count of high-risk predictions.
GetSystemSummary ==
    /\ LET cutoff_time == IsoFormat(now - 24)
           Active(id) == sensors[id] = "active"
           Open(a) == a.acknowledged = FALSE
           Recent(r) == TextGE(IsoFormat(r.timestamp), cutoff_time)
           HighRisk(p) == /\ p.risk_level \in {"ALTO", "CRITICO"}
                          /\ TextGE(IsoFormat(p.prediction_timestamp), cutoff_time)
       IN  summary_out' = Summary("get_system_summary",
               Cardinality({ id \in DOMAIN sensors : Active(id) }),
               Cardinality({ k \in DOMAIN alerts : Open(alerts[k]) }),
               Cardinality({ k \in DOMAIN sensor_readings : Recent(sensor_readings[k]) }),
               Cardinality({ k \in DOMAIN flood_predictions :
                               HighRisk(flood_predictions[k]) }))
    /\ UNCHANGED <<pipelineVars, monitorVars, ruleVars, readingVars, securityVars,
                   flood_predictions, sensors, cloud_sensors>>

\* get_dashboard_summary(): the stored isoformat texts are compared with
\* datetime('now', '-24 hours') and datetime('now', '-1 hours').
GetDashboardSummary ==
    /\ LET Active(id) == cloud_sensors[id] = "active"
           Open(a) == a.acknowledged = FALSE
           Recent(r) == TextGE(IsoFormat(r.timestamp), SqliteDatetime(now - 24))
           HighRisk(p) == /\ p.risk_level \in {"ALTO", "CRITICO"}
                          /\ TextGE(IsoFormat(p.prediction_time), SqliteDatetime(now - 1))
       IN  summary_out' = Summary("get_dashboard_summary",
               Cardinality({ id \in DOMAIN cloud_sensors : Active(id) }),
               Cardinality({ k \in DOMAIN alerts : Open(alerts[k]) }),
               Cardinality({ k \in DOMAIN cloud_readings : Recent(cloud_readings[k]) }),
               Cardinality({ k \in DOMAIN predictions : HighRisk(predictions[k]) }))
    /\ UNCHANGED <<pipelineVars, monitorVars, ruleVars, readingVars, securityVars,
                   flood_predictions, sensors, cloud_sensors>>

\* An hour passes.
HourPasses ==
    /\ now < StartHour + MaxHours
    /\ now' = now + 1
    /\ UNCHANGED <<tableVars, offPipelineVars>>

InitSummary ==
    /\ now = StartHour
    /\ PipelineIdle
    /\ MonitorIdle
    /\ RuleIdle
    /\ ReadingsInit
    /\ SecurityInit
    /\ AdminInit

\* The writers of predictions and alerts and the two summaries, over the
\* hours around midnight: the ingestion of SP001 with its scoring thread,
\* insert_prediction, acknowledge_alert.
NextSummary ==
    \/ \E data \in LifecyclePayloads : ReceiveSensorData("SP001", data)
    \/ \E i \in DOMAIN requests : StartThread(i)
    \/ \E i \in DOMAIN requests : Respond(i)
    \/ \E i \in DOMAIN requests : ProcessPrediction(i)
    \/ \E i \in DOMAIN requests : ProcessPredictionRaises(i)
    \/ InsertPrediction(FloodPrediction("RJ001", 70, "ALTO"))
    \/ \E alert_id \in DOMAIN alerts : AcknowledgeAlert(alert_id, "admin")
    \/ GetSystemSummary
    \/ GetDashboardSummary
    \/ HourPasses

SpecSummary == InitSummary /\ [][NextSummary]_vars

(***************************************************************************)
(* The sensor tables.  A row is kept as its status; the other columns play *)
(* no part in what follows.                                                *)
(***************************************************************************)
\* The values given to the column status.
Statuses == {"active", "inactive", "maintenance"}

\* INSERT OR IGNORE INTO sensors: a row whose id is taken is left alone.
InsertOrIgnore(table, id, status) ==
    IF id \in DOMAIN table THEN table
    ELSE [x \in DOMAIN table \cup {id} |-> IF x = id THEN status ELSE table[x]]

\* INSERT OR REPLACE INTO sensors: a row whose id is taken is replaced.
InsertOrReplaceSensor(table, id, status) ==
    [x \in DOMAIN table \cup {id} |-> IF x = id THEN status ELSE table[x]]

\* insert_sample_data: for sensor in sample_sensors: insert_sensor(sensor),
\* each sample sensor built with status "active".
RECURSIVE insert_sample_data(_, _)
insert_sample_data(table, sample_sensors) ==
    IF sample_sensors = {} THEN table
    ELSE LET id == CHOOSE x \in sample_sensors : TRUE
         IN  insert_sample_data(InsertOrReplaceSensor(table, id, "active"),
                                sample_sensors \ {id})

\* insert_sample_sensors: INSERT OR IGNORE of each sample sensor, the
\* status left to the column default 'active'.
RECURSIVE insert_sample_sensors(_, _)
insert_sample_sensors(table, sample_sensors) ==
    IF sample_sensors = {} THEN table
    ELSE LET id == CHOOSE x \in sample_sensors : TRUE
         IN  insert_sample_sensors(InsertOrIgnore(table, id, "active"),
                                   sample_sensors \ {id})

\* HydroAlertDatabase.insert_sensor(sensor): the one operation that writes
\* a sensor's status, used to register a sensor and to change one.
InsertSensor(sensor_id, status) ==
    /\ sensors' = InsertOrReplaceSensor(sensors, sensor_id, status)
    /\ UNCHANGED <<pipelineVars, monitorVars, ruleVars, readingVars, securityVars,
                   flood_predictions, summary_out, cloud_sensors>>

\* HydroAlertDatabase() constructed again on the existing file:
\* init_database (CREATE TABLE IF NOT EXISTS: nothing to do), then
\* insert_sample_data.
NewHydroAlertDatabase ==
    /\ sensors' = insert_sample_data(sensors, SampleSensors)
    /\ UNCHANGED <<pipelineVars, monitorVars, ruleVars, readingVars, securityVars,
                   flood_predictions, summary_out, cloud_sensors>>

\* CloudDatabase() constructed again on the existing file: init_database,
\* then insert_sample_sensors.
NewCloudDatabase ==
    /\ cloud_sensors' = insert_sample_sensors(cloud_sensors, SampleSensors)
    /\ UNCHANGED <<pipelineVars, monitorVars, ruleVars, readingVars, securityVars,
                   flood_predictions, summary_out, sensors>>

\* The administrator registering and updating sensors and the two
\* databases opened again, with time passing.
NextSensors ==
    \/ \E sensor_id \in SampleSensors \cup {UnknownSensor}, status \in Statuses :
           InsertSensor(sensor_id, status)
    \/ NewHydroAlertDatabase
    \/ NewCloudDatabase
    \/ Tick

SpecSensors == Init /\ [][NextSensors]_vars

(***************************************************************************)
(* The rule scorer applied to one reading, and the level table applied to  *)
(* one probability.                                                        *)
(***************************************************************************)
RainfallValues == {-1, 15, 16, 201}
WaterLevelValues == {-1, 80, 81, 1001}
SoilMoistureValues == {-1, 90, 91, 101}
Probabilities == 0..100

RuleInput(kind, rainfall, water_level, soil_moisture, flood_probability) ==
    [kind |-> kind, rainfall |-> rainfall, water_level |-> water_level,
     soil_moisture |-> soil_moisture, flood_probability |-> flood_probability]

\* Lines 413-434 of process_prediction on a reading.
ScoreReading ==
    /\ rule_in.kind = "reading"
    /\ rule_out = <<>>
    /\ LET flood_probability ==
               RuleProbability(rule_in.rainfall, rule_in.water_level,
                               rule_in.soil_moisture)
       IN  rule_out' = <<flood_probability, RiskLevel(flood_probability)>>
    /\ UNCHANGED <<rule_in, pipelineVars, monitorVars, readingVars, securityVars, adminVars>>

\* Lines 426-434 of process_prediction on a probability.
ClassifyProbability ==
    /\ rule_in.kind = "probability"
    /\ rule_out = <<>>
    /\ rule_out' = <<rule_in.flood_probability, RiskLevel(rule_in.flood_probability)>>
    /\ UNCHANGED <<rule_in, pipelineVars, monitorVars, readingVars, securityVars, adminVars>>

InitRule ==
    /\ now = 1
    /\ PipelineIdle
    /\ MonitorIdle
    /\ rule_in \in
         { RuleInput("reading", r, w, m, 0) :
             r \in RainfallValues, w \in WaterLevelValues, m \in SoilMoistureValues }
         \cup { RuleInput("probability", 0, 0, 0, q) : q \in Probabilities }
    /\ rule_out = <<>>
    /\ ReadingsInit
    /\ SecurityInit
    /\ AdminInit

NextRule ==
    \/ ScoreReading
    \/ ClassifyProbability

SpecRule == InitRule /\ [][NextRule]_vars

(***************************************************************************)
(* The claims.                                                             *)
(***************************************************************************)
Complete(data) == RequiredFields \subseteq data.present /\ data.nonnumeric = {}

\* C1: a reading with rainfall outside [0,200], water_level outside
\* [0,1000] or soil_moisture outside [0,100] is rejected with a validation
\* error (HTTP 400), and no reading row, prediction row or alert row is
\* written for it.
C1_OutOfRangeRejected ==
    \A i \in DOMAIN requests :
        (Complete(requests[i].data) /\ ~InRange(requests[i].data)) =>
            /\ requests[i].reading_id = 0
            /\ requests[i].prediction_id = 0
            /\ requests[i].alert_id = 0
            /\ requests[i].status # 200
            /\ requests[i].pc = "done" => requests[i].status = 400

\* C2: in every reachable state there is at most one unacknowledged alert
\* per (sensor_id, alert_type).
C2_OneOpenAlertPerSensorType ==
    \A sensor_id \in SensorIds :
        Cardinality(OpenAlerts(sensor_id, "FLOOD_RISK")) <= 1

\* C3: when the thread of a request commits its scoring while its sensor
\* has no unacknowledged FLOOD_RISK alert, then if the level written is ALTO
\* or CRITICO exactly one row is added to alerts, unacknowledged, of type
\* FLOOD_RISK, for that sensor and with that level as severity; and if the
\* level is BAIXO or MODERADO alerts is unchanged.
C3_AlertIffHighOrCritical ==
    [][\A i \in DOMAIN requests :
          ( /\ requests[i].thread = "running"
            /\ requests'[i].thread = "finished"
            /\ OpenAlerts(requests[i].sensor_id, "FLOOD_RISK") = {} )
          => LET level == predictions'[requests'[i].prediction_id].risk_level
             IN  IF level \in {"ALTO", "CRITICO"}
                 THEN /\ Len(alerts') = Len(alerts) + 1
                      /\ SubSeq(alerts', 1, Len(alerts)) = alerts
                      /\ alerts'[Len(alerts')].sensor_id = requests[i].sensor_id
                      /\ alerts'[Len(alerts')].alert_type = "FLOOD_RISK"
                      /\ alerts'[Len(alerts')].severity = level
                      /\ alerts'[Len(alerts')].acknowledged = FALSE
                      /\ requests'[i].alert_id = Len(alerts')
                 ELSE /\ level \in {"BAIXO", "MODERADO"}
                      /\ alerts' = alerts
                      /\ requests'[i].alert_id = 0]_vars

\* Scenario 2 then scenario 1: a BAIXO reading scored without an alert, and
\* an ALTO reading scored into the only alert.
C3_Witness ==
    \E i, j \in DOMAIN requests :
        /\ requests[i].thread = "finished"
        /\ predictions[requests[i].prediction_id].risk_level = "BAIXO"
        /\ requests[i].alert_id = 0
        /\ requests[j].thread = "finished"
        /\ predictions[requests[j].prediction_id].risk_level = "ALTO"
        /\ requests[j].alert_id = 1
        /\ Len(alerts) = 1
        /\ alerts[1].severity = "ALTO"

Ind(b) == IF b THEN 1 ELSE 0

\* C4: the probability computed for a reading is 0.3 if rainfall > 15 plus
\* 0.4 if water_level > 80 plus 0.2 if soil_moisture > 90, clamped to [0,1];
\* rainfall = 15, water_level = 80 and soil_moisture = 90 add nothing.
C4_RuleProbabilityFormula ==
    (rule_in.kind = "reading" /\ rule_out # <<>>) =>
        LET sum == 30 * Ind(rule_in.rainfall > 15)
                   + 40 * Ind(rule_in.water_level > 80)
                   + 20 * Ind(rule_in.soil_moisture > 90)
            clamped == IF sum > 100 THEN 100 ELSE IF sum < 0 THEN 0 ELSE sum
        IN  /\ rule_out[1] = clamped
            /\ rule_out[1] \in 0..100
            /\ rule_in.rainfall = 15 =>
                   rule_out[1] = 40 * Ind(rule_in.water_level > 80)
                                 + 20 * Ind(rule_in.soil_moisture > 90)
            /\ rule_in.water_level = 80 =>
                   rule_out[1] = 30 * Ind(rule_in.rainfall > 15)
                                 + 20 * Ind(rule_in.soil_moisture > 90)
            /\ rule_in.soil_moisture = 90 =>
                   rule_out[1] = 30 * Ind(rule_in.rainfall > 15)
                                 + 40 * Ind(rule_in.water_level > 80)

\* The reading (15, 80, 90) scored 0.
C4_Witness ==
    /\ rule_in.kind = "reading"
    /\ rule_in.rainfall = 15 /\ rule_in.water_level = 80 /\ rule_in.soil_moisture = 90
    /\ rule_out # <<>>
    /\ rule_out[1] = 0

\* C5: a probability below 0.3 is BAIXO, from 0.3 and below 0.6 MODERADO,
\* from 0.6 and below 0.8 ALTO, from 0.8 CRITICO.
C5_LevelTable ==
    (rule_in.kind = "probability" /\ rule_out # <<>>) =>
        LET q == rule_in.flood_probability
            level == rule_out[2]
        IN  /\ q < 30 => level = "BAIXO"
            /\ (30 <= q /\ q < 60) => level = "MODERADO"
            /\ (60 <= q /\ q < 80) => level = "ALTO"
            /\ 80 <= q => level = "CRITICO"

\* The probability 0.3 classified MODERADO.
C5_Witness ==
    /\ rule_in.kind = "probability"
    /\ rule_in.flood_probability = 30
    /\ rule_out # <<>>
    /\ rule_out[2] = "MODERADO"

SameKey(r1, r2) == r1.sensor_id = r2.sensor_id /\ r1.timestamp = r2.timestamp

\* C6: the stored readings hold at most one row per (sensor_id, timestamp);
\* inserting a reading whose key is already stored replaces the stored
\* values and leaves the number of rows unchanged.
C6_OneRowPerKeyUpsert ==
    [][\A i \in DOMAIN requests' \ DOMAIN requests :
          requests'[i].reading # <<>> =>
              LET reading == requests'[i].reading[1]
              IN  /\ \A a, b \in DOMAIN cloud_readings' :
                         SameKey(cloud_readings'[a], cloud_readings'[b]) => a = b
                  /\ \E a \in DOMAIN cloud_readings' : cloud_readings'[a] = reading
                  /\ (\E a \in DOMAIN cloud_readings : SameKey(cloud_readings[a], reading))
                         => Len(cloud_readings') = Len(cloud_readings)]_vars

\* C7: a location's buffer holds at most 7 readings, strictly ascending by
\* timestamp.
C7_WindowBoundedAscending ==
    \A l \in DOMAIN locations :
        LET data == locations[l].sensor_data
        IN  /\ Len(data) <= 7
            /\ \A k \in 1..(Len(data) - 1) : data[k].timestamp < data[k + 1].timestamp

\* C8: a scorer called while it holds fewer than 7 readings, or while the
\* model is unavailable, returns 0.5 and raises nothing.
C8_FallbackWhenShortOrNoModel ==
    monitor_out # <<>> =>
        LET r == monitor_out[1]
        IN  (r.held < 7 \/ ~r.available) => (r.risk = 50 /\ ~r.raised)

\* Scenario 3: calculate_risk with the model loaded and 4 readings held.
C8_Witness ==
    /\ monitor_out # <<>>
    /\ monitor_out[1].op = "calculate_risk"
    /\ monitor_out[1].available
    /\ monitor_out[1].held = 4
    /\ monitor_out[1].risk = 50

\* C9: acknowledging an alert that is already acknowledged reports no error
\* and leaves its acknowledged flag, acknowledged_by and acknowledged_at as
\* they were, whatever actor is supplied.
C9_ReacknowledgeIsNoOp ==
    [][\A alert_id \in DOMAIN alerts : \A by \in Actors :
          (alerts[alert_id].acknowledged /\ AcknowledgeAlert(alert_id, by))
              => /\ ack_result' = "True"
                 /\ alerts'[alert_id] = alerts[alert_id]]_vars

\* C10: once the thread of a request has been started, and once its success
\* response has been returned, the reading is stored; the response does not
\* wait for the thread.
C10_StoredBeforeThreadAndResponse ==
    \A i \in DOMAIN requests :
        (requests[i].thread # "none" \/ requests[i].status = 200) =>
            /\ requests[i].reading_id \in DOMAIN cloud_readings
            /\ cloud_readings[requests[i].reading_id] = requests[i].reading[1]
            /\ requests[i].status = 200 => requests[i].thread # "none"

\* Success returned while the thread has not yet written the prediction.
C10_Witness ==
    \E i \in DOMAIN requests :
        /\ requests[i].status = 200
        /\ requests[i].thread = "running"
        /\ requests[i].prediction_id = 0
        /\ predictions = <<>>
        /\ requests[i].reading_id \in DOMAIN cloud_readings

\* C11: a submission that lacks rainfall, water_level or soil_moisture, or
\* carries a value for one of them that is not a number, is answered with
\* an error that names the problem (the missing field, or the failed
\* conversion), and the step that rejects it leaves every table as it was;
\* no reading is ever stored for it, no thread started, no prediction or
\* alert written.
C11_MalformedRejectedNoState ==
    /\ [](\A i \in DOMAIN requests :
            ~Complete(requests[i].data) =>
                /\ requests[i].pc = "done"
                /\ requests[i].status \in {400, 500}
                /\ requests[i].error.kind \in {"missing_field", "could_not_convert"}
                /\ requests[i].error.kind = "missing_field" =>
                       /\ requests[i].error.field \in RequiredFields
                       /\ requests[i].error.field \notin requests[i].data.present
                /\ requests[i].error.kind = "could_not_convert" =>
                       requests[i].data.nonnumeric # {}
                /\ requests[i].reading = <<>>
                /\ requests[i].reading_id = 0
                /\ requests[i].thread = "none"
                /\ requests[i].prediction_id = 0
                /\ requests[i].alert_id = 0)
    /\ [][\A i \in DOMAIN requests' \ DOMAIN requests :
            ~Complete(requests'[i].data) =>
                /\ cloud_readings' = cloud_readings
                /\ predictions' = predictions
                /\ alerts' = alerts]_vars

\* A body without water_level answered 400 naming water_level, and a body
\* whose rainfall is not a number answered 500, both leaving the tables
\* empty.
C11_Witness ==
    /\ Len(requests) = 2
    /\ requests[1].status = 400
    /\ requests[1].error = MissingFieldError("water_level")
    /\ requests[2].status = 500
    /\ requests[2].error.kind = "could_not_convert"
    /\ cloud_readings = <<>> /\ predictions = <<>> /\ alerts = <<>>

\* C12: when a scoring thread ends in an exception, a score is still
\* written for its reading (the fallback), and the request's response is
\* left as it was.
C12_ExceptionBecomesFallbackScore ==
    [][\A i \in DOMAIN requests :
          (requests[i].thread = "running" /\ requests'[i].thread = "failed") =>
              /\ Len(predictions') = Len(predictions) + 1
              /\ predictions'[Len(predictions')].sensor_id = requests[i].sensor_id
              /\ requests'[i].status = requests[i].status
              /\ requests'[i].pc = requests[i].pc
              /\ requests'[i].error = requests[i].error]_vars

\* Every step leaves the rows predictions already holds as they are.
PredictionsAppendOnly ==
    /\ Len(predictions') >= Len(predictions)
    /\ SubSeq(predictions', 1, Len(predictions)) = predictions

\* C13: once the scoring thread of an accepted reading has ended, exactly
\* one row of predictions belongs to that reading, for its sensor; no row
\* belongs to two readings or to none; and no step modifies or deletes a
\* row of predictions.
C13_OnePredictionPerAcceptedReading ==
    /\ [](\A i \in DOMAIN requests :
            /\ requests[i].thread \in {"finished", "failed"} =>
                   /\ requests[i].prediction_id \in DOMAIN predictions
                   /\ predictions[requests[i].prediction_id].sensor_id =
                          requests[i].sensor_id
            /\ \A j \in DOMAIN requests :
                   (i # j /\ requests[i].prediction_id # 0)
                       => requests[j].prediction_id # requests[i].prediction_id)
    /\ [](Len(predictions) =
            Cardinality({i \in DOMAIN requests : requests[i].prediction_id # 0}))
    /\ [][PredictionsAppendOnly]_vars

\* C14: no step removes an alert or turns an acknowledged alert back to
\* unacknowledged; a step that changes the acknowledged flag of an existing
\* alert is an acknowledge_alert call on that alert, which leaves the
\* requests, readings and predictions alone; and every row a step adds to
\* alerts is unacknowledged.
C14_AcknowledgedOnlyByOperator ==
    [][/\ \A a \in DOMAIN alerts :
            /\ a \in DOMAIN alerts'
            /\ alerts[a].acknowledged => alerts'[a].acknowledged
            /\ alerts'[a].acknowledged # alerts[a].acknowledged =>
                   /\ \E by \in Actors : AcknowledgeAlert(a, by)
                   /\ UNCHANGED <<requests, cloud_readings, predictions>>
       /\ \A a \in DOMAIN alerts' \ DOMAIN alerts :
            /\ ~alerts'[a].acknowledged
            /\ alerts'[a].acknowledged_by = NULL]_vars

\* An alert written by a scoring thread and acknowledged by the operator,
\* beside one written by insert_alert and still open.
C14_Witness ==
    \E i \in DOMAIN requests : \E a, b \in DOMAIN alerts :
        /\ requests[i].alert_id = a
        /\ alerts[a].acknowledged
        /\ alerts[a].acknowledged_by = "defesa_civil"
        /\ b # a
        /\ \A j \in DOMAIN requests : requests[j].alert_id # b
        /\ ~alerts[b].acknowledged

AcknowledgedAlerts(sensor_id, alert_type) ==
    { a \in DOMAIN alerts :
        /\ alerts[a].sensor_id = sensor_id
        /\ alerts[a].alert_type = alert_type
        /\ alerts[a].acknowledged }

\* C15: when a scoring thread commits a level ALTO or CRITICO for a sensor
\* whose FLOOD_RISK alerts are all acknowledged (and there is one), one new
\* unacknowledged FLOOD_RISK row is added for the sensor and every row
\* already in alerts, the acknowledged one included, is left as it was.
C15_NewAlertAfterAcknowledgement ==
    [][\A i \in DOMAIN requests :
          ( /\ requests[i].thread = "running"
            /\ requests'[i].thread = "finished"
            /\ predictions'[requests'[i].prediction_id].risk_level \in {"ALTO", "CRITICO"}
            /\ AcknowledgedAlerts(requests[i].sensor_id, "FLOOD_RISK") # {}
            /\ OpenAlerts(requests[i].sensor_id, "FLOOD_RISK") = {} )
          => /\ Len(alerts') = Len(alerts) + 1
             /\ \A a \in DOMAIN alerts : alerts'[a] = alerts[a]
             /\ alerts'[Len(alerts')].sensor_id = requests[i].sensor_id
             /\ alerts'[Len(alerts')].alert_type = "FLOOD_RISK"
             /\ alerts'[Len(alerts')].acknowledged = FALSE
             /\ requests'[i].alert_id = Len(alerts')]_vars

\* SP001 scored ALTO, its alert acknowledged by admin, SP001 scored ALTO
\* again: two rows, the first still acknowledged by admin, the second open.
C15_Witness ==
    /\ Len(alerts) = 2
    /\ alerts[1].sensor_id = "SP001" /\ alerts[2].sensor_id = "SP001"
    /\ alerts[1].acknowledged /\ alerts[1].acknowledged_by = "admin"
    /\ ~alerts[2].acknowledged
    /\ \E i \in DOMAIN requests :
          /\ requests[i].alert_id = 2
          /\ requests[i].thread = "finished"

Rows(table, reading) == {a \in DOMAIN table : table[a] = reading}

Stored(reading) ==
    {i \in DOMAIN requests :
        requests[i].reading_id # 0 /\ requests[i].reading = <<reading>>}

HasKey(row, reading) ==
    row.sensor_id = reading.sensor_id /\ row.timestamp = reading.timestamp

\* C16: an ingestion whose write of the reading fails is answered with a
\* failure, starts no thread and gets no prediction or alert, and the failed
\* step leaves every table as it was, so that the table holds exactly the
\* rows of the submissions that succeeded: a failure followed by a retry
\* leaves what one successful submission leaves.  The same for
\* insert_reading: a call that returns False leaves the table as it was,
\* and after a call that returns True the table holds one row for the
\* reading's key, with the reading's values.
C16_FailedWriteLeavesNothing ==
    /\ [](\A i \in DOMAIN requests :
            requests[i].error.kind = "database_error" =>
                /\ requests[i].pc = "done"
                /\ requests[i].status = 500
                /\ requests[i].reading_id = 0
                /\ requests[i].thread = "none"
                /\ requests[i].prediction_id = 0
                /\ requests[i].alert_id = 0)
    /\ [](\A i \in DOMAIN requests :
            requests[i].reading # <<>> =>
                Cardinality(Rows(cloud_readings, requests[i].reading[1]))
                    = Cardinality(Stored(requests[i].reading[1])))
    /\ [][\A i \in DOMAIN requests' \ DOMAIN requests :
            requests'[i].error.kind = "database_error" =>
                UNCHANGED <<cloud_readings, predictions, alerts>>]_vars
    /\ [](insert_result # <<>> =>
            /\ \A a, b \in DOMAIN sensor_readings :
                   HasKey(sensor_readings[a], sensor_readings[b]) => a = b)
    /\ [][insert_result' # insert_result =>
            IF insert_result'[2]
            THEN \E a \in DOMAIN sensor_readings' :
                    /\ HasKey(sensor_readings'[a], insert_result'[1])
                    /\ sensor_readings'[a].rainfall = insert_result'[1].rainfall
                    /\ sensor_readings'[a].water_level = insert_result'[1].water_level
                    /\ sensor_readings'[a].soil_moisture = insert_result'[1].soil_moisture
            ELSE sensor_readings' = sensor_readings]_vars
    /\ [][sensor_readings' # sensor_readings =>
            (insert_result' # <<>> /\ insert_result'[2])]_vars

\* A submission that failed at the write, then the same submission stored
\* and answered with success: one row; and an insert_reading that returned
\* False while the table held a row.
C16_Witness ==
    /\ Len(requests) = 2
    /\ requests[1].error.kind = "database_error"
    /\ requests[2].data = requests[1].data
    /\ requests[2].status = 200
    /\ Len(cloud_readings) = 1
    /\ cloud_readings[1] = requests[1].reading[1]
    /\ insert_result # <<>>
    /\ ~insert_result[2]
    /\ Len(sensor_readings) = 1

ValidNoTimestamp(data) ==
    Complete(data) /\ InRange(data) /\ data.timestamp = NoTime

\* C17: a dictionary with valid rainfall, water_level and soil_moisture and
\* no timestamp is accepted by the validator, and the ingestion that stores
\* such a submission gives the reading the time of the ingestion.
C17_MissingTimestampAccepted ==
    /\ []((validate_out # <<>> /\ ValidNoTimestamp(validate_out[1]))
            => validate_out[2] = TRUE)
    /\ [][\A i \in DOMAIN requests' \ DOMAIN requests :
            (ValidNoTimestamp(requests'[i].data) /\ requests'[i].reading_id # 0) =>
                /\ requests'[i].reading[1].timestamp = now
                /\ cloud_readings'[requests'[i].reading_id].timestamp = now]_vars

\* An answer that rejects the submission: the 400 of a missing field, or
\* the 500 of a value that is not a number.
Rejection(request) ==
    request.error.kind \in {"missing_field", "could_not_convert"}

\* C18: a step that rejects a submission or a dictionary appends exactly
\* one event invalid_sensor_data, with a reason and the payload, to the
\* security log; a step that accepts one appends nothing.
C18_RejectionAudited ==
    [][/\ \A i \in DOMAIN requests' \ DOMAIN requests :
            IF Rejection(requests'[i])
            THEN /\ Len(security_log') = Len(security_log) + 1
                 /\ security_log'[Len(security_log')].event_type = "invalid_sensor_data"
                 /\ security_log'[Len(security_log')].details.data = requests'[i].data
                 /\ security_log'[Len(security_log')].details.reason.kind # "none"
            ELSE security_log' = security_log
       /\ \A data \in GatewayPayloads :
            ValidateSensorInput(data) =>
                IF validate_out'[2]
                THEN security_log' = security_log
                ELSE /\ Len(security_log') = Len(security_log) + 1
                     /\ security_log'[Len(security_log')].event_type = "invalid_sensor_data"
                     /\ security_log'[Len(security_log')].details.data = data
                     /\ security_log'[Len(security_log')].details.reason.kind # "none"]_vars

Ended(request) == request.thread \in {"finished", "failed"}

\* C19: of the scoring threads of one sensor at most one is running at a
\* time, and they end in the order their readings were accepted: the thread
\* of a later reading has not ended, and wrote no prediction row, before
\* the thread of an earlier reading of the sensor.
C19_ScoringSerializedPerSensor ==
    \A i, j \in DOMAIN requests :
        ( /\ i < j
          /\ requests[i].sensor_id = requests[j].sensor_id
          /\ requests[i].reading_id # 0
          /\ requests[j].reading_id # 0 )
        => /\ ~(requests[i].thread = "running" /\ requests[j].thread = "running")
           /\ Ended(requests[j]) => Ended(requests[i])
           /\ (requests[i].prediction_id # 0 /\ requests[j].prediction_id # 0)
                  => requests[i].prediction_id < requests[j].prediction_id

Triple(reading) == <<reading.rainfall, reading.water_level, reading.soil_moisture>>

C21_OnlyOwnSensorChanges ==
    /\ [][\A location_id \in LocationIds :
            \A data \in MonitorData \cup HeldDicts(locations) :
                ProcessSensorData(location_id, data) =>
                    /\ DOMAIN locations' = DOMAIN locations
                    /\ \A l \in DOMAIN locations \ {location_id} :
                           locations'[l] = locations[l]]_vars
    /\ [][\A i \in DOMAIN requests :
            (requests[i].thread = "running" /\ requests'[i].thread # "running") =>
                /\ SubSeq(predictions', 1, Len(predictions)) = predictions
                /\ SubSeq(alerts', 1, Len(alerts)) = alerts
                /\ cloud_readings' = cloud_readings
                /\ \A p \in DOMAIN predictions' \ DOMAIN predictions :
                       predictions'[p].sensor_id = requests[i].sensor_id
                /\ \A a \in DOMAIN alerts' \ DOMAIN alerts :
                       alerts'[a].sensor_id = requests[i].sensor_id
                /\ \A j \in DOMAIN requests \ {i} : requests'[j] = requests[j]]_vars

\* The window the model is to be given for a buffer: its 7 newest entries,
\* oldest first, as rows <<rainfall, water_level, soil_moisture>>.
Window(data) ==
    [t \in 1..7 |->
        <<data[Len(data) - 7 + t].rainfall, data[Len(data) - 7 + t].water_level,
          data[Len(data) - 7 + t].soil_moisture>>]

\* What a scorer's result says of a buffer: with fewer than 7 entries the
\* model was not called and the fallback 0.5 returned; otherwise the model
\* was called on the buffer's window.
WindowRule(result, data) ==
    /\ result.held = Len(data)
    /\ IF ~result.available \/ Len(data) < 7
       THEN result.X = <<>> /\ result.risk = 50 /\ ~result.raised
       ELSE result.X = Window(data)

\* The step appended a reading to the buffer of location_id: it is a
\* process_sensor_data call for it (register_location empties the buffer).
Grown(location_id) ==
    /\ location_id \in DOMAIN locations'
    /\ Len(locations'[location_id].sensor_data)
           = Len(locations[location_id].sensor_data) + 1

\* The step returned from the scorer op.
CalledAs(op) == monitor_out' # <<>> /\ monitor_out'[1].op = op

\* C22: every input a scorer gives the model has 7 rows of 3 features; in
\* calculate_risk and process_sensor_data it is the window of the
\* location's buffer (after the append), and a buffer shorter than 7 is
\* answered with the fallback without calling the model; the dashboard
\* gives the model the 7-day history of the location as it is.
C22_ModelInputIsLast7 ==
    /\ [](monitor_out # <<>> =>
            LET X == monitor_out[1].X
            IN  X # <<>> => (Len(X) = 7 /\ \A t \in DOMAIN X : Len(X[t]) = 3))
    /\ [][\A location_id \in DOMAIN locations :
            /\ (Grown(location_id) /\ monitor_out' # <<>>) =>
                   /\ monitor_out'[1].op = "process_sensor_data"
                   /\ WindowRule(monitor_out'[1], locations'[location_id].sensor_data)
            /\ (CalledAs("calculate_risk") /\ CalculateRisk(location_id)) =>
                   WindowRule(monitor_out'[1], locations[location_id].sensor_data)]_vars
    /\ [][CalledAs("predict_risk_level") =>
            \A available \in BOOLEAN, history \in DashboardHistories :
                PredictRiskLevel(available, history) =>
                    IF available THEN monitor_out'[1].X = history
                    ELSE monitor_out'[1].X = <<>> /\ monitor_out'[1].risk = 50]_vars

\* process_sensor_data answered from the model with 8 readings held: the
\* window starts at the second reading, which differs from the first.
C22_Witness ==
    /\ monitor_out # <<>>
    /\ monitor_out[1].op = "process_sensor_data"
    /\ monitor_out[1].held = 8
    /\ monitor_out[1].risk = 90
    /\ monitor_out[1].X[1] = <<5, 30, 40>>
    /\ monitor_out[1].X[7] = <<20, 85, 50>>
    /\ \E l \in DOMAIN locations :
          /\ Len(locations[l].sensor_data) = 8
          /\ locations[l].sensor_data[1].rainfall = 20
          /\ locations[l].sensor_data[2].rainfall = 5

\* A prediction made at time t lies within the last hour at time at.
WithinLastHour(t, at) == at - 1 <= t /\ t <= at

\* C23: a summary's high-risk count is the number of predictions (of the
\* table it reads) with level ALTO or CRITICO made within the hour before
\* the call, and its open-alert count is the number of alerts
\* unacknowledged at the call.
C23_SummaryCounts ==
    [][summary_out' # summary_out =>
          LET table == IF summary_out'.op = "get_system_summary"
                       THEN [k \in DOMAIN flood_predictions |->
                               [risk_level |-> flood_predictions[k].risk_level,
                                t |-> flood_predictions[k].prediction_timestamp]]
                       ELSE [k \in DOMAIN predictions |->
                               [risk_level |-> predictions[k].risk_level,
                                t |-> predictions[k].prediction_time]]
          IN  /\ summary_out'.high_risk_predictions =
                     Cardinality({ k \in DOMAIN table :
                        /\ table[k].risk_level \in {"ALTO", "CRITICO"}
                        /\ WithinLastHour(table[k].t, now) })
              /\ summary_out'.active_alerts =
                     Cardinality({ a \in DOMAIN alerts : ~alerts[a].acknowledged })]_vars

\* water_level > 80 and (rainfall > 15 or soil_moisture > 90)
HighWaterAndOther(reading) ==
    /\ reading.water_level > 80
    /\ reading.rainfall > 15 \/ reading.soil_moisture > 90

\* C24: a reading whose scoring thread has committed has an alert exactly
\* when water_level > 80 and (rainfall > 15 or soil_moisture > 90); no
\* reading with water_level <= 80 ever has an alert; and alerts holds no
\* row but these.
C24_AlertIffHighWaterAndOther ==
    /\ \A i \in DOMAIN requests :
          requests[i].reading # <<>> =>
              /\ requests[i].thread = "finished" =>
                     (requests[i].alert_id # 0 <=> HighWaterAndOther(requests[i].reading[1]))
              /\ requests[i].alert_id # 0 =>
                     /\ HighWaterAndOther(requests[i].reading[1])
                     /\ requests[i].alert_id \in DOMAIN alerts
                     /\ alerts[requests[i].alert_id].sensor_id = requests[i].sensor_id
              /\ requests[i].reading[1].water_level <= 80 => requests[i].alert_id = 0
    /\ Len(alerts) = Cardinality({ i \in DOMAIN requests : requests[i].alert_id # 0 })

\* (200, 80, 100) scored without an alert, and (15, 81, 91) scored into
\* the only alert.
C24_Witness ==
    \E i, j \in DOMAIN requests :
        /\ requests[i].thread = "finished"
        /\ Triple(requests[i].reading[1]) = <<200, 80, 100>>
        /\ requests[i].alert_id = 0
        /\ predictions[requests[i].prediction_id].risk_level = "MODERADO"
        /\ requests[j].thread = "finished"
        /\ Triple(requests[j].reading[1]) = <<15, 81, 91>>
        /\ requests[j].alert_id = 1
        /\ Len(alerts) = 1

HighPredictions(sensor_id) ==
    { k \in DOMAIN predictions :
        /\ predictions[k].sensor_id = sensor_id
        /\ predictions[k].risk_level \in {"ALTO", "CRITICO"} }

HighAlerts(sensor_id) ==
    { k \in DOMAIN alerts :
        /\ alerts[k].sensor_id = sensor_id
        /\ alerts[k].severity \in {"ALTO", "CRITICO"} }

\* A step adds an alert only with its prediction, a prediction of level
\* ALTO or CRITICO only with its alert, and nothing when a thread fails.
RowsAddedTogether ==
    /\ Len(alerts') > Len(alerts) =>
           /\ Len(alerts') = Len(alerts) + 1
           /\ Len(predictions') = Len(predictions) + 1
           /\ alerts'[Len(alerts')].sensor_id = predictions'[Len(predictions')].sensor_id
           /\ alerts'[Len(alerts')].severity = predictions'[Len(predictions')].risk_level
    /\ ( /\ Len(predictions') > Len(predictions)
         /\ predictions'[Len(predictions')].risk_level \in {"ALTO", "CRITICO"} )
           => Len(alerts') = Len(alerts) + 1
    /\ \A i \in DOMAIN requests :
           (requests[i].thread = "running" /\ requests'[i].thread = "failed")
               => UNCHANGED <<predictions, alerts>>

\* C25: in every state a reader can see, each sensor has as many FLOOD_RISK
\* alerts as predictions of level ALTO or CRITICO, a reading has an alert
\* only with its prediction and a prediction of level ALTO or CRITICO only
\* with its alert; every step that adds one of the two rows adds the other
\* in the same step; and a thread that ended in an exception left neither.
C25_PredictionAndAlertTogether ==
    /\ [](\A sensor_id \in SensorIds :
            Cardinality(HighAlerts(sensor_id))
                = Cardinality(HighPredictions(sensor_id)))
    /\ [](\A i \in DOMAIN requests :
            /\ requests[i].alert_id # 0 =>
                   /\ requests[i].prediction_id # 0
                   /\ alerts[requests[i].alert_id].severity
                          = predictions[requests[i].prediction_id].risk_level
            /\ ( /\ requests[i].prediction_id # 0
                 /\ predictions[requests[i].prediction_id].risk_level
                        \in {"ALTO", "CRITICO"} )
                   => requests[i].alert_id # 0
            /\ requests[i].thread = "failed" =>
                   (requests[i].prediction_id = 0 /\ requests[i].alert_id = 0))
    /\ [][RowsAddedTogether]_vars

\* One ALTO reading scored, its prediction and its alert stored; another
\* whose thread ended in an exception, nothing stored for it.
C25_Witness ==
    \E i, j \in DOMAIN requests :
        /\ requests[i].thread = "finished"
        /\ requests[i].prediction_id = 1 /\ requests[i].alert_id = 1
        /\ predictions[1].risk_level = "ALTO" /\ alerts[1].severity = "ALTO"
        /\ requests[j].thread = "failed"
        /\ Triple(requests[j].reading[1]) = <<20, 85, 50>>
        /\ Len(predictions) = 1 /\ Len(alerts) = 1

\* C26: a process_sensor_data call made while the model is unavailable or
\* the location holds fewer than 7 readings computes the risk 0.5 and, for
\* a threshold of 0.5 or more, triggers no alert; and whenever a call
\* triggers an alert the risk is strictly greater than the threshold.
C26_NoAlertOnFallback ==
    [][\A location_id \in DOMAIN locations :
          (Grown(location_id) /\ monitor_out' # <<>>) =>
              LET result == monitor_out'[1]
                  alert == monitor_out'[2]
                  risk_threshold == locations[location_id].risk_threshold
              IN  /\ result.held = Len(locations'[location_id].sensor_data)
                  /\ (~model \/ result.held < 7) =>
                         /\ result.risk = 50
                         /\ risk_threshold >= 50 => ~alert
                  /\ alert => result.risk > risk_threshold]_vars

\* With the model loaded, the third reading of a location registered with
\* threshold 0.5, all values beyond their ranges: risk 0.5, no alert.
C26_Witness ==
    /\ model
    /\ monitor_out # <<>>
    /\ monitor_out[1].op = "process_sensor_data"
    /\ monitor_out[1].held = 3
    /\ monitor_out[1].risk = 50
    /\ monitor_out[2] = FALSE
    /\ "SP001" \in DOMAIN locations
    /\ locations["SP001"].risk_threshold = 50
    /\ Len(locations["SP001"].sensor_data) = 3
    /\ locations["SP001"].sensor_data[3].water_level = 1001

\* C27: every row a scorer gives the model has its columns in the order of
\* the training sequences: in process_sensor_data the row of a buffered
\* reading is its training row, and in the dashboard, whose histories are
\* rows <<rainfall, water_level, moisture>>, the row given to the model is
\* <<rainfall, moisture, water_level>>.
C27_InferenceColumnsAsTrained ==
    /\ [][\A location_id \in DOMAIN locations :
            (Grown(location_id) /\ monitor_out' # <<>> /\ monitor_out'[1].X # <<>>) =>
                LET data == locations'[location_id].sensor_data
                IN  \A t \in 1..7 :
                       monitor_out'[1].X[t] = TrainingRow(data[Len(data) - 7 + t])]_vars
    /\ [][CalledAs("predict_risk_level") =>
            \A history \in DashboardHistories :
                PredictRiskLevel(TRUE, history) =>
                    \A t \in 1..7 :
                       monitor_out'[1].X[t]
                           = <<history[t][1], history[t][3], history[t][2]>>]_vars

\* C28: a submission to the ingestion endpoint under an id that is not in
\* the table sensors leaves the tables as they were and never gets a
\* stored reading, a thread, a prediction or an alert, and no table holds
\* a row with such an id; and a process_sensor_data call for an id that is
\* not a registered location leaves every buffer as it was.
C28_UnregisteredChangesNothing ==
    /\ [](\A i \in DOMAIN requests :
            requests[i].sensor_id \notin DOMAIN cloud_sensors =>
                /\ requests[i].reading_id = 0
                /\ requests[i].thread = "none"
                /\ requests[i].prediction_id = 0
                /\ requests[i].alert_id = 0)
    /\ [](\A table \in {cloud_readings, predictions, alerts} :
            \A k \in DOMAIN table : table[k].sensor_id \in DOMAIN cloud_sensors)
    /\ [][\A i \in DOMAIN requests' \ DOMAIN requests :
            requests'[i].sensor_id \notin DOMAIN cloud_sensors =>
                UNCHANGED <<cloud_readings, predictions, alerts>>]_vars
    /\ [][\A location_id \in {"SP001", UnknownSensor} \ DOMAIN locations :
            \A data \in MonitorData :
                ProcessSensorData(location_id, data) => UNCHANGED locations]_vars

\* C29: an acknowledge_alert call with an id no alert has (here the id
\* after the last one) returns False and leaves every alert as it was.
C29_UnknownAlertReportsFailure ==
    [][\A by \in Actors :
          LET alert_id == Len(alerts) + 1
          IN  (AcknowledgeAlert(alert_id, by) \/ AcknowledgeAlertRaises(alert_id, by))
                  => (ack_result' = "False" /\ alerts' = alerts)]_vars

\* C30: no step removes a sensor from either table; a step that changes
\* the status of a registered sensor is an insert_sensor call for that
\* sensor; and constructing either database again leaves the status of
\* every registered sensor as it was.
C30_SensorStatusOnlyByUpdate ==
    [][/\ DOMAIN sensors \subseteq DOMAIN sensors'
       /\ DOMAIN cloud_sensors \subseteq DOMAIN cloud_sensors'
       /\ \A id \in DOMAIN sensors :
             sensors'[id] # sensors[id] =>
                 \E status \in Statuses : InsertSensor(id, status)
       /\ \A id \in DOMAIN cloud_sensors : cloud_sensors'[id] = cloud_sensors[id]
       /\ NewHydroAlertDatabase =>
             \A id \in DOMAIN sensors : sensors'[id] = sensors[id]
       /\ NewCloudDatabase =>
             \A id \in DOMAIN cloud_sensors : cloud_sensors'[id] = cloud_sensors[id]]_vars

====
